---- MODULE Spec2Model ----
(***************************************************************************)
(* A model of sabrina-bot: the meme compositor (make_meme.py) and the chat *)
(* command that drives it (bot.py).                                        *)
(*                                                                         *)
(* Images are symbolic.  An image is a record [w, h, mode, base, layers,   *)
(* amin, amax]: a w x h raster whose pixels are `base` except where a      *)
(* layer (an image pasted at an offset) covers them; later layers cover    *)
(* earlier ones, as successive Image.paste calls do.  A pixel is named by  *)
(* where it comes from ("left", "right": the decoded sources; "bg", "pad", *)
(* "panel", "white": the fixed fill colours), so that a source pixel that  *)
(* happens to have a fill colour is still told apart from the fill.        *)
(* amin/amax are the extrema of the alpha channel.                         *)
(*                                                                         *)
(* Python's float arithmetic is modelled by exact integer arithmetic       *)
(* (a / b compared and truncated as rationals).  The two agree except      *)
(* where an exact quotient is a whole number and the float lands one ulp   *)
(* below it; the inputs enumerated here were chosen clear of such cases.   *)
(***************************************************************************)
EXTENDS Integers, Sequences, FiniteSets, TLC

VARIABLES
    env,        \* the file system the renders read: sabrina.png, the fonts, their metrics
    mm,         \* the activation frame of one make_meme call (locals and position)
    fs_out,     \* the content of the output file, NoFile while it was never written
    fit_args,   \* the arguments of a direct fit_image call
    fit_res,    \* its outcome
    tx_args,    \* the arguments of a direct text layout (canvas size, caption, font)
    tx_res,     \* its outcome
    hpc,        \* process_file: each handler's position
    hreq,       \* process_file: each handler's command (prompt, attachment, font size)
    hres,       \* process_file: what each handler's render returned or raised
    sent,       \* process_file: the responses sent to each requester, in order
    writers     \* the handlers whose render wrote the output file, in order

vars == <<env, mm, fs_out, fit_args, fit_res, tx_args, tx_res, hpc, hreq, hres, sent, writers>>

----------------------------------------------------------------------------
(* Bounds of the model *)

\* largest width or height of an image handed to fit_image directly
MaxDim == 4
\* largest number of paragraphs (lines of the caption after splitlines)
MaxParas == 2
\* largest line height the font reports
MaxLh == 5
\* number of process_file commands handled concurrently
NumHandlers == 2

----------------------------------------------------------------------------
(* Layout constants of make_meme and draw_justified_text *)

margin == 12
gutter == 8
text_pad == 20
line_spacing == 6
sticker_border == 2
default_canvas_w == 750
default_canvas_h == 923
default_font_size == 36

Max(a, b) == IF a >= b THEN a ELSE b

NoFile == [kind |-> "nofile"]
None == [kind |-> "none"]

----------------------------------------------------------------------------
(* Images *)

\* Image.new(mode, (w, h), colour)
NewImage(w, h, colour) ==
    [w |-> w, h |-> h, mode |-> "RGB", base |-> colour, layers |-> <<>>,
     amin |-> 255, amax |-> 255]

\* a decoded source: every pixel is the source's own
Decoded(tag, f) ==
    [w |-> f.w, h |-> f.h, mode |-> f.mode, base |-> tag, layers |-> <<>>,
     amin |-> f.amin, amax |-> f.amax]

\* img.convert(mode): RGB drops the alpha channel, RGBA adds an opaque one when
\* the image has none
Convert(img, mode) ==
    IF mode = "RGB"
    THEN [img EXCEPT !.mode = "RGB", !.amin = 255, !.amax = 255]
    ELSE [img EXCEPT !.mode = "RGBA"]

\* img.resize((w, h)): every pixel is resampled from img
Resize(img, w, h) == [img EXCEPT !.w = w, !.h = h, !.layers = <<>>]

\* canvas.paste(img, (x, y)): the part of img inside the canvas covers it
Paste(canvas, img, x, y) ==
    [canvas EXCEPT !.layers = Append(@, [img |-> img, x |-> x, y |-> y])]

Covers(layer, x, y) ==
    /\ layer.x <= x /\ x < layer.x + layer.img.w
    /\ layer.y <= y /\ y < layer.y + layer.img.h

RECURSIVE PixelAt(_, _, _)
\* where the pixel (x, y) of img comes from
PixelAt(img, x, y) ==
    LET on == {i \in 1..Len(img.layers) : Covers(img.layers[i], x, y)}
    IN  IF on = {} THEN img.base
        ELSE LET top == CHOOSE i \in on : \A j \in on : j <= i
                 l == img.layers[top]
             IN  PixelAt(l.img, x - l.x, y - l.y)

\* ImageOps.expand(img, border, fill): a larger image of the fill colour with
\* img pasted at (border, border)
Expand(img, b, colour) ==
    Paste([NewImage(img.w + 2 * b, img.h + 2 * b, colour) EXCEPT !.mode = img.mode],
          img, b, b)

\* img.crop((x0, y0, x1, y1)): the region, black where it leaves img
Crop(img, x0, y0, x1, y1) ==
    Paste([NewImage(x1 - x0, y1 - y0, "black") EXCEPT !.mode = img.mode],
          img, 0 - x0, 0 - y0)

----------------------------------------------------------------------------
(* fit_image *)

Raised(exc) == [ok |-> FALSE, exc |-> exc]
Returned(v) == [ok |-> TRUE, val |-> v]

\* the size fit_image resizes to: <<new_w, new_h>>
FitSize(img, box_w, box_h) ==
    IF img.w * box_h > box_w * img.h
    THEN <<box_w, (box_w * img.h) \div img.w>>
    ELSE <<(box_h * img.w) \div img.h, box_h>>

\* where fit_image pastes the resized image: <<x, y>>
FitOffset(new, box_w, box_h) ==
    <<(box_w - new[1]) \div 2, (box_h - new[2]) \div 2>>

\* fit_image(img, box_w, box_h).  Image.resize refuses a size with a side
\* below 1 (ValueError); the ratios divide by img.height and box_h.
FitImage(img, box_w, box_h) ==
    IF img.h = 0 \/ box_h = 0 THEN Raised("ZeroDivisionError")
    ELSE LET new == FitSize(img, box_w, box_h)
             off == FitOffset(new, box_w, box_h)
         IN  IF new[1] < 1 \/ new[2] < 1 THEN Raised("ValueError")
             ELSE Returned(Paste(NewImage(box_w, box_h, "pad"),
                                 Resize(img, new[1], new[2]), off[1], off[2]))

----------------------------------------------------------------------------
(* Text: a caption is the sequence of its paragraphs (str.splitlines), a    *)
(* paragraph the sequence of its chunks as textwrap splits it: n > 0 is a   *)
(* word of n characters, n < 0 a run of -n blanks.  Upper-casing changes no *)
(* length.  A font reports a line height in whole pixels and advances in    *)
(* 1/64 pixel: adv64 for a letter, sp64 for a blank.                        *)

Abs(n) == IF n < 0 THEN 0 - n ELSE n

\* chunk.strip() == ''
IsBlank(c) == c <= 0

RECURSIVE TakeFit(_, _, _, _)
\* textwrap: move chunks onto the current line while they fit in width
TakeFit(chunks, width, cur, len) ==
    IF chunks # <<>> /\ len + Abs(Head(chunks)) <= width
    THEN TakeFit(Tail(chunks), width, Append(cur, Head(chunks)), len + Abs(Head(chunks)))
    ELSE [cur |-> cur, len |-> len, rest |-> chunks]

\* textwrap._handle_long_word: the next chunk is longer than a line, so as
\* much of it as the current line has room for is cut off it
HandleLongWord(t, width) ==
    LET c == Head(t.rest)
        space_left == width - t.len
        piece == IF c < 0 THEN 0 - space_left ELSE space_left
    IN  [cur |-> Append(t.cur, piece), len |-> t.len + space_left,
         rest |-> <<c - piece>> \o Tail(t.rest)]

\* textwrap drops one blank chunk from the end of a line
DropTrailing(cur) ==
    IF cur # <<>> /\ IsBlank(cur[Len(cur)]) THEN SubSeq(cur, 1, Len(cur) - 1) ELSE cur

RECURSIVE WrapChunks(_, _, _)
\* textwrap.TextWrapper._wrap_chunks with the default options
WrapChunks(chunks, width, lines) ==
    IF chunks = <<>> THEN lines
    ELSE LET c0 == IF IsBlank(Head(chunks)) /\ lines # <<>> THEN Tail(chunks) ELSE chunks
             t == TakeFit(c0, width, <<>>, 0)
             u == IF t.rest # <<>> /\ Abs(Head(t.rest)) > width
                  THEN HandleLongWord(t, width) ELSE t
             cur == DropTrailing(u.cur)
         IN  WrapChunks(u.rest, width, IF cur # <<>> THEN Append(lines, cur) ELSE lines)

\* para.strip() == ""
ParaIsBlank(para) == \A i \in 1..Len(para) : IsBlank(para[i])

RECURSIVE WrapText(_, _)
\* the loop over text.splitlines(): wrap each paragraph, a blank one adds ""
WrapText(text, width) ==
    IF text = <<>> THEN <<>>
    ELSE WrapChunks(Head(text), width, <<>>)
         \o (IF ParaIsBlank(Head(text)) THEN << <<>> >> ELSE <<>>)
         \o WrapText(Tail(text), width)

RECURSIVE Width64(_, _)
\* font.getlength(line), in 1/64 pixel
Width64(line, font) ==
    IF line = <<>> THEN 0
    ELSE (IF Head(line) < 0 THEN (0 - Head(line)) * font.sp64 ELSE Head(line) * font.adv64)
         + Width64(Tail(line), font)

\* est_chars_per_line: max(1, int(max_width / max(1, avg_char_w))), where
\* avg_char_w is the mean advance of the 26 letters and the blank
EstCharsPerLine(max_width, font) ==
    LET sum64 == 26 * font.adv64 + font.sp64
    IN  IF max_width <= 0 THEN 1
        ELSE Max(1, (max_width * 27 * 64) \div Max(27 * 64, sum64))

\* a variant that starts the block at the top of the box
DrawJustifiedTextTop(box, text, font) ==
    LET max_width == box[3] - box[1]
        lines == WrapText(text, EstCharsPerLine(max_width, font))
        total_h == Len(lines) * font.lh + (Len(lines) - 1) * line_spacing
    IN  [box |-> box, lines |-> lines, lh |-> font.lh, total_h |-> total_h, y |-> box[2],
         calls |-> [i \in 1..Len(lines) |->
                      [x |-> box[1] + (max_width * 64 - Width64(lines[i], font)) \div 128,
                       y |-> box[2] + (i - 1) * (font.lh + line_spacing),
                       w64 |-> Width64(lines[i], font)]]]

\* draw_justified_text: the lines, the block's height and top, and the
\* draw.text calls (x and y in pixels, the line's width in 1/64 pixel)
DrawJustifiedText(box, text, font) ==
    LET x0 == box[1]
        y0 == box[2]
        x1 == box[3]
        y1 == box[4]
        max_width == x1 - x0
        lines == WrapText(text, EstCharsPerLine(max_width, font))
        lh == font.lh
        total_h == Len(lines) * lh + (Len(lines) - 1) * line_spacing
        y == y0 + (y1 - y0 - total_h) \div 2
    IN  [box |-> box, lines |-> lines, lh |-> lh, total_h |-> total_h, y |-> y,
         calls |-> [i \in 1..Len(lines) |->
                      [x |-> x0 + (max_width * 64 - Width64(lines[i], font)) \div 128,
                       y |-> y + (i - 1) * (lh + line_spacing),
                       w64 |-> Width64(lines[i], font)]]]

----------------------------------------------------------------------------
(* load_font *)

\* the candidate font files, in the order load_font lists them
candidates == <<"DejaVuSans-Bold.ttf", "LiberationSans-Bold.ttf">>

\* a font resource of the file system e at a size
FontOf(face, size, e) ==
    [face |-> face, size |-> size, lh |-> e.lh, adv64 |-> e.adv64, sp64 |-> e.sp64]

\* ImageFont.truetype(candidates[i], size) loads
Loads(i, e) == i \in e.fonts

----------------------------------------------------------------------------
(* make_meme: one call is a frame f, stepped from "layout" to "returned" or *)
(* "raised".  f.log lists, in order, the files the call has touched.        *)

\* top_h = int(canvas_h * 0.56)
TopH(canvas_h) == (canvas_h * 56) \div 100

\* col_w = (canvas_w - (2*margin) - gutter) // 2
ColW(canvas_w) == (canvas_w - (2 * margin) - gutter) \div 2

\* text_box of make_meme
TextBox(canvas_w, canvas_h) ==
    <<text_pad, TopH(canvas_h) + text_pad, canvas_w - text_pad, canvas_h - text_pad>>

\* the frame of make_meme(user, text, out_path, canvas_w, canvas_h, font_size)
Call(user, text, canvas_w, canvas_h, font_size) ==
    [pc |-> "layout", user |-> user, text |-> text, canvas_w |-> canvas_w,
     canvas_h |-> canvas_h, font_size |-> font_size,
     top_h |-> 0, panel_h |-> 0, col_w |-> 0,
     bg |-> None, sabrina |-> None, right |-> None, right_fit |-> None,
     font |-> None, cand |-> 1, attempts |-> <<>>, drawn |-> None,
     log |-> <<>>, exc |-> "", saved |-> FALSE]

Raise(f, exc) == [f EXCEPT !.pc = "raised", !.exc = exc]

\* layout constants and the background canvas
StepLayout(f) ==
    [f EXCEPT !.pc = "open_sabrina",
              !.top_h = TopH(f.canvas_h),
              !.panel_h = f.canvas_h - TopH(f.canvas_h),
              !.col_w = ColW(f.canvas_w),
              !.bg = NewImage(f.canvas_w, f.canvas_h, "bg")]

\* a variant that falls back to a blank image when sabrina.png cannot be opened
StepOpenSabrinaFallback(f, e) ==
    LET g == [f EXCEPT !.log = Append(@, "open sabrina.png")]
    IN  [g EXCEPT !.pc = "open_user",
                  !.sabrina = IF e.sabrina.ok
                              THEN Convert(Decoded("left", e.sabrina), "RGB")
                              ELSE NewImage(1, 1, "bg")]

\* sabrina = Image.open(sabrina_path).convert("RGB")
StepOpenSabrina(f, e) ==
    LET g == [f EXCEPT !.log = Append(@, "open sabrina.png")]
    IN  IF e.sabrina.ok
        THEN [g EXCEPT !.pc = "open_user",
                       !.sabrina = Convert(Decoded("left", e.sabrina), "RGB")]
        ELSE Raise(g, e.sabrina.exc)

\* a variant that falls back to a blank image when the attachment cannot be decoded
StepOpenUserFallback(f) ==
    LET g == [f EXCEPT !.log = Append(@, "open user image")]
    IN  [g EXCEPT !.pc = "fit_left",
                  !.right = IF f.user.ok
                            THEN Convert(Decoded("right", f.user), "RGBA")
                            ELSE Convert(NewImage(1, 1, "bg"), "RGBA")]

\* right = Image.open(user_png_bytes).convert("RGBA")
StepOpenUser(f) ==
    LET g == [f EXCEPT !.log = Append(@, "open user image")]
    IN  IF f.user.ok
        THEN [g EXCEPT !.pc = "fit_left",
                       !.right = Convert(Decoded("right", f.user), "RGBA")]
        ELSE Raise(g, "UnidentifiedImageError")

\* left_fit = fit_image(sabrina, col_w, top_h); bg.paste(left_fit, (margin, margin))
StepFitLeft(f) ==
    LET r == FitImage(f.sabrina, f.col_w, f.top_h)
    IN  IF r.ok
        THEN [f EXCEPT !.pc = "fit_right", !.bg = Paste(@, r.val, margin, margin)]
        ELSE Raise(f, r.exc)

\* right_fit = fit_image(right.convert("RGB"), col_w, top_h)
StepFitRight(f) ==
    LET r == FitImage(Convert(f.right, "RGB"), f.col_w, f.top_h)
    IN  IF r.ok
        THEN [f EXCEPT !.pc = "sticker", !.right_fit = r.val]
        ELSE Raise(f, r.exc)

\* the test that guards the sticker effect
HasTransparency(right) == right.mode = "RGBA" /\ right.amax < 255

\* a variant that crops the far corner of the expanded image
StickerFarCorner(right_fit, col_w, top_h) ==
    Crop(Expand(right_fit, sticker_border, "white"),
         2 * sticker_border, 2 * sticker_border,
         col_w + 2 * sticker_border, top_h + 2 * sticker_border)

\* the sticker effect: expand by a white border, crop to the box
Sticker(right_fit, col_w, top_h) ==
    Crop(Expand(right_fit, sticker_border, "white"), 0, 0, col_w, top_h)

\* the optional sticker effect, then bg.paste(right_fit, right_box[:2])
StepSticker(f) ==
    LET rf == IF HasTransparency(f.right)
              THEN Sticker(f.right_fit, f.col_w, f.top_h) ELSE f.right_fit
    IN  [f EXCEPT !.pc = "panel", !.right_fit = rf,
                  !.bg = Paste(@, rf, margin + f.col_w + gutter, margin)]

\* a variant that pastes the panel before the two images
StepPanelFirst(f) ==
    [f EXCEPT !.pc = "font",
              !.bg.layers = <<[img |-> NewImage(f.canvas_w, f.panel_h, "panel"),
                               x |-> 0, y |-> f.top_h]>> \o @]

\* panel = Image.new(...); bg.paste(panel, (0, top_h))
StepPanel(f) ==
    [f EXCEPT !.pc = "font",
              !.bg = Paste(@, NewImage(f.canvas_w, f.panel_h, "panel"), 0, f.top_h)]

\* a variant that goes on to the next candidate after one has loaded
StepFontKeepGoing(f, e) ==
    IF f.cand <= Len(candidates)
    THEN [f EXCEPT !.cand = @ + 1,
                   !.attempts = Append(@, [cand |-> f.cand, ok |-> Loads(f.cand, e)]),
                   !.font = IF Loads(f.cand, e)
                            THEN FontOf(candidates[f.cand], f.font_size, e) ELSE @]
    ELSE [f EXCEPT !.pc = "text",
                   !.font = IF \E i \in 1..Len(f.attempts) : f.attempts[i].ok
                            THEN @ ELSE FontOf("default", f.font_size, e)]

\* load_font, one pass of its loop: try the next candidate, return it when it
\* loads, else go on; after the last one return the default font
StepFont(f, e) ==
    IF f.cand <= Len(candidates)
    THEN IF Loads(f.cand, e)
         THEN [f EXCEPT !.pc = "text",
                        !.attempts = Append(@, [cand |-> f.cand, ok |-> TRUE]),
                        !.font = FontOf(candidates[f.cand], f.font_size, e)]
         ELSE [f EXCEPT !.cand = @ + 1,
                        !.attempts = Append(@, [cand |-> f.cand, ok |-> FALSE])]
    ELSE [f EXCEPT !.pc = "text", !.font = FontOf("default", f.font_size, e)]

\* draw_justified_text(draw, text_box, meme_text.upper(), font)
StepText(f) ==
    [f EXCEPT !.pc = "save",
              !.drawn = DrawJustifiedText(TextBox(f.canvas_w, f.canvas_h), f.text, f.font)]

\* bg.save(out_path, "PNG"); return bg
StepSave(f) ==
    [f EXCEPT !.pc = "returned", !.saved = TRUE, !.log = Append(@, "write out_path")]

Finished(f) == f.pc \in {"returned", "raised"}

Step(f, e) ==
    CASE f.pc = "layout" -> StepLayout(f)
      [] f.pc = "open_sabrina" -> StepOpenSabrina(f, e)
      [] f.pc = "open_user" -> StepOpenUser(f)
      [] f.pc = "fit_left" -> StepFitLeft(f)
      [] f.pc = "fit_right" -> StepFitRight(f)
      [] f.pc = "sticker" -> StepSticker(f)
      [] f.pc = "panel" -> StepPanel(f)
      [] f.pc = "font" -> StepFont(f, e)
      [] f.pc = "text" -> StepText(f)
      [] f.pc = "save" -> StepSave(f)
      [] OTHER -> f

RECURSIVE MakeMeme(_, _)
\* a whole call: make_meme awaits nothing, so a handler runs it in one piece
MakeMeme(f, e) == IF Finished(f) THEN f ELSE MakeMeme(Step(f, e), e)

\* the image a finished call hands back: the canvas and the text drawn on it
ImageOf(f) == [canvas |-> f.bg, drawn |-> f.drawn]

----------------------------------------------------------------------------
(* Inputs *)

ImageFile(w, h, mode, amin, amax) ==
    [ok |-> TRUE, exc |-> "", w |-> w, h |-> h, mode |-> mode, amin |-> amin, amax |-> amax]

BadFile(exc) ==
    [ok |-> FALSE, exc |-> exc, w |-> 0, h |-> 0, mode |-> "", amin |-> 0, amax |-> 0]

\* sabrina.png: absent, unreadable, or an image (30 x 1 is too flat for the column)
SabrinaFiles ==
    {BadFile("FileNotFoundError"), BadFile("UnidentifiedImageError"),
     ImageFile(2, 3, "RGB", 255, 255), ImageFile(30, 1, "RGBA", 0, 255)}

\* the user's attachment: not an image, or an image that is opaque, partly
\* transparent with an opaque pixel, or transparent in every pixel
UserFiles ==
    {BadFile("UnidentifiedImageError")}
    \cup {ImageFile(d[1], d[2], a[1], a[2], a[3]) :
            d \in {<<2, 2>>, <<3, 2>>, <<40, 1>>},
            a \in {<<"RGB", 255, 255>>, <<"RGBA", 0, 255>>, <<"RGBA", 0, 200>>}}

\* font metrics: line height, letter and blank advance in 1/64 pixel
Advances == {<<64, 64>>, <<65, 33>>, <<130, 64>>}

Envs(sabrinas, fontsets, lhs, advs) ==
    {[sabrina |-> s, fonts |-> fs, lh |-> lh, adv64 |-> a[1], sp64 |-> a[2]] :
        s \in sabrinas, fs \in fontsets, lh \in lhs, a \in advs}

\* paragraphs: an empty line, blanks only, a word, two words, an indented
\* line, a word longer than a line
Paragraphs == {<<>>, <<-4>>, <<3>>, <<2, -1, 3>>, <<-4, 2, -1, 1>>, <<9>>}

RECURSIVE SeqsUpTo(_, _)
SeqsUpTo(S, n) ==
    IF n = 0 THEN {<<>>}
    ELSE LET shorter == SeqsUpTo(S, n - 1)
         IN  shorter \cup {Append(q, x) : q \in shorter, x \in S}

Captions == SeqsUpTo(Paragraphs, MaxParas)

CanvasWs == {41, 48}
CanvasHs == {100, 110, 140}

IdleFrame == [pc |-> "idle"]
IdleEnv == [sabrina |-> BadFile(""), fonts |-> {}, lh |-> 0, adv64 |-> 0, sp64 |-> 0]
NoCall == [called |-> FALSE]

Handlers == 1..NumHandlers

NoHandlers ==
    /\ hpc = [h \in Handlers |-> "idle"]
    /\ hreq = [h \in Handlers |-> None]
    /\ hres = [h \in Handlers |-> None]
    /\ sent = [h \in Handlers |-> <<>>]
    /\ writers = <<>>

----------------------------------------------------------------------------
(* Spec: one call of make_meme, step by step *)

Init ==
    /\ env \in Envs(SabrinaFiles, SUBSET (1..Len(candidates)), {MaxLh}, {<<64, 64>>, <<130, 64>>})
    /\ mm \in {Call(u, t, cw, ch, fs) :
                 u \in UserFiles, t \in {<< <<2, -1, 3>> >>, << <<>>, <<9>> >>},
                 cw \in CanvasWs, ch \in {100, 140},
                 fs \in {default_font_size, 48}}
    /\ fs_out = NoFile
    /\ fit_args = NoCall /\ fit_res = NoCall
    /\ tx_args = NoCall /\ tx_res = NoCall
    /\ NoHandlers

\* the file at out_path after a step of a call
WriteOut(f, old) == IF f.saved THEN [format |-> "PNG", image |-> ImageOf(f)] ELSE old

\* a step of the call: the frame becomes f, and the file is written if f saved
Becomes(f) ==
    /\ mm' = f
    /\ fs_out' = WriteOut(f, fs_out)
    /\ UNCHANGED <<env, fit_args, fit_res, tx_args, tx_res, hpc, hreq, hres, sent, writers>>

Layout ==
    /\ mm.pc = "layout"
    /\ Becomes(StepLayout(mm))

OpenSabrina ==
    /\ mm.pc = "open_sabrina"
    /\ Becomes(StepOpenSabrina(mm, env))

OpenUser ==
    /\ mm.pc = "open_user"
    /\ Becomes(StepOpenUser(mm))

FitLeft ==
    /\ mm.pc = "fit_left"
    /\ Becomes(StepFitLeft(mm))

FitRight ==
    /\ mm.pc = "fit_right"
    /\ Becomes(StepFitRight(mm))

StickerAndPaste ==
    /\ mm.pc = "sticker"
    /\ Becomes(StepSticker(mm))

Panel ==
    /\ mm.pc = "panel"
    /\ Becomes(StepPanel(mm))

LoadFontTry ==
    /\ mm.pc = "font"
    /\ mm.cand <= Len(candidates)
    /\ Becomes(StepFont(mm, env))

LoadFontDefault ==
    /\ mm.pc = "font"
    /\ mm.cand > Len(candidates)
    /\ Becomes(StepFont(mm, env))

Text ==
    /\ mm.pc = "text"
    /\ Becomes(StepText(mm))

Save ==
    /\ mm.pc = "save"
    /\ Becomes(StepSave(mm))

Next ==
    \/ Layout
    \/ OpenSabrina
    \/ OpenUser
    \/ FitLeft
    \/ FitRight
    \/ StickerAndPaste
    \/ Panel
    \/ LoadFontTry
    \/ LoadFontDefault
    \/ Text
    \/ Save

Spec == Init /\ [][Next]_vars

----------------------------------------------------------------------------
(* SpecFit: fit_image on every image and box up to MaxDim *)

InitFit ==
    /\ fit_args \in {[called |-> FALSE, img |-> [w |-> iw, h |-> ih], box_w |-> bw, box_h |-> bh] :
                       iw \in 1..MaxDim, ih \in 1..MaxDim, bw \in 1..MaxDim, bh \in 1..MaxDim}
    /\ fit_res = NoCall
    /\ env = IdleEnv /\ mm = IdleFrame /\ fs_out = NoFile
    /\ tx_args = NoCall /\ tx_res = NoCall
    /\ NoHandlers

CallFitImage ==
    /\ ~fit_args.called
    /\ fit_args' = [fit_args EXCEPT !.called = TRUE]
    /\ fit_res' = FitImage(Decoded("src", ImageFile(fit_args.img.w, fit_args.img.h, "RGB", 255, 255)),
                           fit_args.box_w, fit_args.box_h)
    /\ UNCHANGED <<env, mm, fs_out, tx_args, tx_res, hpc, hreq, hres, sent, writers>>

NextFit == CallFitImage

SpecFit == InitFit /\ [][NextFit]_vars

----------------------------------------------------------------------------
(* SpecText: the caption layout of make_meme on every caption and font *)

InitText ==
    /\ tx_args \in {[called |-> FALSE, canvas_w |-> cw, canvas_h |-> ch, text |-> t,
                     font |-> [face |-> "default", size |-> default_font_size,
                               lh |-> lh, adv64 |-> a[1], sp64 |-> a[2]]] :
                       cw \in CanvasWs, ch \in CanvasHs, t \in Captions,
                       lh \in 1..MaxLh, a \in Advances}
    /\ tx_res = NoCall
    /\ env = IdleEnv /\ mm = IdleFrame /\ fs_out = NoFile
    /\ fit_args = NoCall /\ fit_res = NoCall
    /\ NoHandlers

CallDrawText ==
    /\ ~tx_args.called
    /\ tx_args' = [tx_args EXCEPT !.called = TRUE]
    /\ tx_res' = DrawJustifiedText(TextBox(tx_args.canvas_w, tx_args.canvas_h),
                                   tx_args.text, tx_args.font)
    /\ UNCHANGED <<env, mm, fs_out, fit_args, fit_res, hpc, hreq, hres, sent, writers>>

NextText == CallDrawText

SpecText == InitText /\ [][NextText]_vars

----------------------------------------------------------------------------
(* SpecBot: process_file commands handled concurrently.  The handlers are   *)
(* coroutines of one event loop: a handler runs alone between two awaits,   *)
(* so a whole render is one step; the awaits (defer, read, respond) are     *)
(* where handlers interleave.                                               *)

\* prompt_template.splitlines(): an empty line, the indented sentence ending
\* in the prompt, a line of blanks
Template(prompt) ==
    << <<>>,
       <<-4, 7, -1, 9, -1, 4, -1, 3, -1, 4, -1, 3, -1, 2, -1>> \o prompt,
       <<-4>> >>

\* the prompts: "press e" and the empty prompt
Prompts == {<<5, -1, 1>>, <<>>}

Requests ==
    {[prompt |-> p, file |-> u, font_size |-> default_font_size] :
        p \in Prompts,
        u \in {BadFile("UnidentifiedImageError"), ImageFile(3, 2, "RGB", 255, 255),
               ImageFile(2, 2, "RGBA", 0, 200), ImageFile(1000, 2, "RGB", 255, 255)}}

InitBot ==
    /\ env \in Envs({BadFile("FileNotFoundError"), ImageFile(2, 3, "RGB", 255, 255)},
                    {{1}}, {MaxLh}, {<<64, 64>>})
    /\ hpc = [h \in Handlers |-> "defer"]
    /\ hreq \in [Handlers -> Requests]
    /\ hres = [h \in Handlers |-> [runs |-> 0, ok |-> FALSE, exc |-> "", image |-> None]]
    /\ sent = [h \in Handlers |-> <<>>]
    /\ writers = <<>>
    /\ fs_out = NoFile
    /\ mm = IdleFrame
    /\ fit_args = NoCall /\ fit_res = NoCall
    /\ tx_args = NoCall /\ tx_res = NoCall

\* the frame of the handler's call:
\* make_meme(io.BytesIO(file_bytes), prompt_template, "output_meme.png", font_size=font_size)
HandlerCall(req) ==
    Call(req.file, Template(req.prompt), default_canvas_w, default_canvas_h, req.font_size)

\* await ctx.defer()
Defer(h) ==
    /\ hpc[h] = "defer"
    /\ hpc' = [hpc EXCEPT ![h] = "read"]
    /\ UNCHANGED <<env, mm, fs_out, fit_args, fit_res, tx_args, tx_res, hreq, hres, sent, writers>>

\* file_bytes = await file.read()
ReadFile(h) ==
    /\ hpc[h] = "read"
    /\ hpc' = [hpc EXCEPT ![h] = "render"]
    /\ UNCHANGED <<env, mm, fs_out, fit_args, fit_res, tx_args, tx_res, hreq, hres, sent, writers>>

\* the try block: the render runs to its end; an exception leads to the
\* except branch, a result to the lines after it
Render(h) ==
    /\ hpc[h] = "render"
    /\ LET f == MakeMeme(HandlerCall(hreq[h]), env)
       IN  /\ hres' = [hres EXCEPT ![h] =
                         [runs |-> @.runs + 1, ok |-> f.pc = "returned", exc |-> f.exc,
                          image |-> IF f.pc = "returned" THEN ImageOf(f) ELSE None]]
           /\ fs_out' = WriteOut(f, fs_out)
           /\ writers' = IF f.saved THEN Append(writers, h) ELSE writers
           /\ hpc' = [hpc EXCEPT ![h] = IF f.pc = "returned" THEN "respond_ok" ELSE "respond_err"]
    /\ UNCHANGED <<env, mm, fit_args, fit_res, tx_args, tx_res, hreq, sent>>

\* a variant without the return: the handler goes on to the success response
RespondErrorNoReturn(h) ==
    /\ hpc[h] = "respond_err"
    /\ sent' = [sent EXCEPT ![h] = Append(@, [kind |-> "error", text |-> hres[h].exc, file |-> NoFile])]
    /\ hpc' = [hpc EXCEPT ![h] = "respond_ok"]
    /\ UNCHANGED <<env, mm, fs_out, fit_args, fit_res, tx_args, tx_res, hreq, hres, writers>>

\* await ctx.respond(f"... An error occurred: {str(e)}"); return
RespondError(h) ==
    /\ hpc[h] = "respond_err"
    /\ sent' = [sent EXCEPT ![h] = Append(@, [kind |-> "error", text |-> hres[h].exc, file |-> NoFile])]
    /\ hpc' = [hpc EXCEPT ![h] = "done"]
    /\ UNCHANGED <<env, mm, fs_out, fit_args, fit_res, tx_args, tx_res, hreq, hres, writers>>

\* a variant that sends the file at out_path
ResponseFileFromDisk(h) == fs_out

\* the file of the success response: generated_img encoded into img_buffer
ResponseFile(h) == [format |-> "PNG", image |-> hres[h].image]

\* generated_img.save(img_buffer, format="PNG"); await ctx.respond(content=..., file=...)
RespondSuccess(h) ==
    /\ hpc[h] = "respond_ok"
    /\ sent' = [sent EXCEPT ![h] = Append(@, [kind |-> "success", text |-> "Meme created!",
                                              file |-> ResponseFile(h)])]
    /\ hpc' = [hpc EXCEPT ![h] = "done"]
    /\ UNCHANGED <<env, mm, fs_out, fit_args, fit_res, tx_args, tx_res, hreq, hres, writers>>

NextBot ==
    \/ \E h \in Handlers : Defer(h)
    \/ \E h \in Handlers : ReadFile(h)
    \/ \E h \in Handlers : Render(h)
    \/ \E h \in Handlers : RespondError(h)
    \/ \E h \in Handlers : RespondSuccess(h)

SpecBot == InitBot /\ [][NextBot]_vars

----------------------------------------------------------------------------
(* Properties of one make_meme call (Spec) *)

AfterSticker == {"panel", "font", "text", "save", "returned"}

\* the fitted user image before the sticker effect
RightFitted == FitImage(Convert(mm.right, "RGB"), mm.col_w, mm.top_h).val

Columns(img) == 0..(img.w - 1)
Rows(img) == 0..(img.h - 1)

\* C1: when sabrina.png is absent or unreadable the call raises at the
\* opening of sabrina.png: the user image is never opened, nothing is
\* written to out_path, and no step after the opening is reached.
C1_MissingAssetFailsFirst ==
    ~env.sabrina.ok =>
        /\ mm.pc \in {"layout", "open_sabrina", "raised"}
        /\ mm.pc = "raised" => mm.exc = env.sabrina.exc /\ mm.log = <<"open sabrina.png">>
        /\ \A i \in 1..Len(mm.log) : mm.log[i] \notin {"open user image", "write out_path"}
        /\ ~mm.saved
        /\ fs_out = NoFile

\* a call that raised on a missing sabrina.png although its user image decodes
C1_Witness ==
    /\ mm.pc = "raised"
    /\ ~env.sabrina.ok
    /\ env.sabrina.exc = "FileNotFoundError"
    /\ mm.user.ok

\* C2: when the user's bytes are no image the call raises (the decode error,
\* when sabrina.png itself could be opened) and writes no file; and out_path
\* is written only by a call that opened both images, pasted the left image,
\* the right image and the panel in that order, and laid out the text.
C2_NoWriteOnDecodeError ==
    /\ ~mm.user.ok =>
          /\ ~mm.saved /\ fs_out = NoFile
          /\ mm.pc \in {"layout", "open_sabrina", "open_user", "raised"}
          /\ (mm.pc = "raised" /\ env.sabrina.ok) =>
                 /\ mm.exc = "UnidentifiedImageError"
                 /\ mm.log = <<"open sabrina.png", "open user image">>
    /\ (mm.saved \/ fs_out # NoFile) =>
          /\ mm.pc = "returned"
          /\ mm.log = <<"open sabrina.png", "open user image", "write out_path">>
          /\ Len(mm.bg.layers) = 3
          /\ mm.bg.layers[3].img.base = "panel"
          /\ mm.drawn # None
          /\ fs_out = [format |-> "PNG", image |-> ImageOf(mm)]

\* a call that raised on an undecodable user image after opening sabrina.png
C2_Witness ==
    /\ mm.pc = "raised"
    /\ env.sabrina.ok
    /\ ~mm.user.ok
    /\ mm.exc = "UnidentifiedImageError"

\* C4: after a successful call the canvas has the requested size and, under
\* the glyphs of the text, every pixel of the rows top_h .. canvas_h - 1 is
\* the panel's over the full width: the panel is pasted after the left and
\* the right image, so nothing of them is left in the band.
C4_PanelBandIsPanel ==
    mm.pc = "returned" =>
        /\ mm.bg.w = mm.canvas_w /\ mm.bg.h = mm.canvas_h
        /\ mm.top_h = (mm.canvas_h * 56) \div 100
        /\ Len(mm.bg.layers) = 3
        /\ \A x \in 0..(mm.canvas_w - 1) : \A y \in mm.top_h..(mm.canvas_h - 1) :
               PixelAt(mm.bg, x, y) = "panel"

\* a successful call whose left and right columns reach into the band
C4_Witness ==
    /\ mm.pc = "returned"
    /\ Covers(mm.bg.layers[1], margin, mm.top_h)
    /\ Covers(mm.bg.layers[2], margin + mm.col_w + gutter, mm.top_h)

C6_StickerWhenSomeAlphaBelow255 ==
    mm.pc \in AfterSticker =>
        /\ mm.right.amin < 255 =>
              /\ mm.right_fit.w = mm.col_w /\ mm.right_fit.h = mm.top_h
              /\ \A x \in Columns(mm.right_fit) : \A y \in Rows(mm.right_fit) :
                     (x < sticker_border \/ y < sticker_border) =>
                         PixelAt(mm.right_fit, x, y) = "white"
        /\ mm.right.amin = 255 => mm.right_fit = RightFitted

\* C9: load_font tries the candidates in their order, stops at the first one
\* that loads and returns it at the requested size; when none loads it
\* returns the default font at that size; and it raises nothing: a call that
\* raised did so before any font was tried.
C9_FirstLoadableFont ==
    /\ \A i \in 1..Len(mm.attempts) :
           /\ mm.attempts[i].cand = i
           /\ mm.attempts[i].ok = Loads(i, env)
           /\ mm.attempts[i].ok => i = Len(mm.attempts)
    /\ Len(mm.attempts) <= Len(candidates)
    /\ mm.pc = "raised" => mm.attempts = <<>>
    /\ mm.pc \in {"text", "save", "returned"} =>
           /\ mm.font.size = mm.font_size
           /\ IF \E i \in 1..Len(candidates) : Loads(i, env)
              THEN LET first == CHOOSE i \in 1..Len(candidates) :
                                    Loads(i, env) /\ \A j \in 1..(i - 1) : ~Loads(j, env)
                   IN  mm.font.face = candidates[first] /\ Len(mm.attempts) = first
              ELSE mm.font.face = "default" /\ Len(mm.attempts) = Len(candidates)

\* a call that failed on the first candidate and loaded the second
C9_Witness ==
    /\ mm.pc = "text"
    /\ env.fonts = {2}
    /\ Len(mm.attempts) = 2
    /\ mm.font.face = candidates[2]

----------------------------------------------------------------------------
(* Properties of fit_image (SpecFit) *)

\* C3: for every image and box of positive size fit_image returns a canvas of
\* the box's size holding the image resized to the source's aspect ratio (up
\* to truncation), inside the box, centred to within 1 pixel on both axes.
C3_FitTotalAndCentred ==
    fit_args.called =>
        /\ fit_res.ok
        /\ LET c == fit_res.val
               l == c.layers[1]
               iw == fit_args.img.w
               ih == fit_args.img.h
               right_pad == c.w - (l.x + l.img.w)
               bottom_pad == c.h - (l.y + l.img.h)
           IN  /\ c.w = fit_args.box_w /\ c.h = fit_args.box_h
               /\ Len(c.layers) = 1
               /\ l.img.w >= 1 /\ l.img.h >= 1
               /\ l.x >= 0 /\ l.y >= 0 /\ right_pad >= 0 /\ bottom_pad >= 0
               /\ \/ l.img.w = c.w /\ l.img.h * iw <= l.img.w * ih /\ l.img.w * ih < (l.img.h + 1) * iw
                  \/ l.img.h = c.h /\ l.img.w * ih <= l.img.h * iw /\ l.img.h * iw < (l.img.w + 1) * ih
               /\ right_pad - l.x \in {0, 1}
               /\ bottom_pad - l.y \in {0, 1}

----------------------------------------------------------------------------
(* Properties of the caption layout (SpecText) *)

BoxHeight(r) == r.box[4] - r.box[2]
BoxWidth(r) == r.box[3] - r.box[1]
TopSlack(r) == r.y - r.box[2]
BottomSlack(r) == r.box[4] - (r.y + r.total_h)
\* a line's slack on its left and on its right, in 1/64 pixel
LeftSlack64(r, i) == (r.calls[i].x - r.box[1]) * 64
RightSlack64(r, i) == (r.box[3] - r.calls[i].x) * 64 - r.calls[i].w64

----------------------------------------------------------------------------
(* Properties of the command handlers (SpecBot) *)

\* C7: whatever the render raises (the missing asset, the undecodable
\* attachment, the ValueError of an image too flat to fit), a handler renders at most once and responds at most once; when it is
\* done it has rendered once and sent one response: the failure response
\* carrying the exception's text when the render raised (and no success
\* response), the success response carrying the rendered image otherwise.
C7_OneResponsePerCommand ==
    \A h \in Handlers :
        /\ hres[h].runs <= 1
        /\ Len(sent[h]) <= 1
        /\ hpc[h] \in {"defer", "read", "render"} => hres[h].runs = 0 /\ sent[h] = <<>>
        /\ hpc[h] \in {"respond_ok", "respond_err"} => hres[h].runs = 1 /\ sent[h] = <<>>
        /\ hpc[h] = "respond_err" => ~hres[h].ok
        /\ hpc[h] = "respond_ok" => hres[h].ok
        /\ hpc[h] = "done" =>
               /\ hres[h].runs = 1
               /\ Len(sent[h]) = 1
               /\ IF hres[h].ok
                  THEN /\ sent[h][1].kind = "success"
                       /\ sent[h][1].file = [format |-> "PNG", image |-> hres[h].image]
                  ELSE /\ sent[h][1].kind = "error"
                       /\ sent[h][1].text = hres[h].exc
                       /\ sent[h][1].file = NoFile

\* one handler done after a failed render, another done after a successful one
C7_Witness ==
    \E g, h \in Handlers :
        /\ hpc[g] = "done" /\ ~hres[g].ok /\ hres[g].exc = "UnidentifiedImageError"
        /\ hpc[h] = "done" /\ hres[h].ok

\* C8 as stated: the renders of different commands share no mutable state:
\* no resource is written by the renders of two handlers.
C8_NoSharedMutableState ==
    \A i, j \in 1..Len(writers) : writers[i] = writers[j]

\* C8, amended: the renders share one mutable resource besides the read-only
\* sabrina.png, the output file output_meme.png, which every successful
\* render overwrites, so that it holds the image of the last one; each render
\* still runs to its end on a canvas and font of its own, and the image sent
\* to a requester is the one composed from that command's own image and
\* caption, whatever the interleaving.
C8_OwnImageSharedFile ==
    /\ \A h \in Handlers : \A i \in 1..Len(sent[h]) :
           sent[h][i].kind = "success" =>
               sent[h][i].file =
                   [format |-> "PNG", image |-> ImageOf(MakeMeme(HandlerCall(hreq[h]), env))]
    /\ \A i, j \in 1..Len(writers) : i # j => writers[i] # writers[j]
    /\ \A h \in Handlers :
           (\E i \in 1..Len(writers) : writers[i] = h) <=> (hres[h].runs = 1 /\ hres[h].ok)
    /\ IF writers = <<>> THEN fs_out = NoFile
       ELSE fs_out = [format |-> "PNG", image |-> hres[writers[Len(writers)]].image]

\* a requester was sent its own image after another command's render had
\* overwritten the output file with a different one
C8_Witness ==
    \E g, h \in Handlers :
        /\ g # h
        /\ writers = <<g, h>>
        /\ hpc[g] = "done"
        /\ sent[g][1].kind = "success"
        /\ fs_out # sent[g][1].file
        /\ fs_out = [format |-> "PNG", image |-> hres[h].image]

====
